---- MODULE Spec2Model ----
(***************************************************************************)
(* A model of meta_dataset/dataset_conversion/dataset_to_hdf5.py: the      *)
(* split assignment (gen_rand_split_inds, get_splits and the converters'   *)
(* create_splits), the image recoding of load_and_process_image, the       *)
(* shard writers and the converters' conversion loops.                     *)
(***************************************************************************)
EXTENDS Integers, Sequences, FiniteSets, TLC

VARIABLES
    gs,                 \* frame of one gen_rand_split_inds call
    lp,                 \* frame of one load_and_process_image call
    wr,                 \* frame of one write_tfrecord_from_image_files call
    kind,               \* the converter class of the instance
    seed,               \* self.seed
    pc,                 \* position of the instance in convert_dataset
    npRng,              \* state of numpy's global generator (np.random)
    pyRng,              \* state of Python's global generator (random)
    splitFile,          \* content of self.split_file: <<>> when it does not exist
    specFile,           \* content of self.dataset_spec_path: <<>> when it does not exist
    spec_writes,        \* number of times this instance has written its specification
    shards,             \* the shard files under records_path, by class id
    classes_per_split,  \* self.classes_per_split
    class_names,        \* self.class_names
    images_per_class,   \* self.images_per_class
    bilevel,            \* superclasses_per_split, classes_per_superclass, superclass_names
    splits,             \* the splits the conversion works with
    queue,              \* the classes (and alphabets) still to be processed, in order
    cur,                \* frame of the call in progress (MSCOCO writer loop, crop, constructor)
    lastCall,           \* what the last get_splits call did and returned
    created,            \* every splits dictionary create_splits has produced, with its seed
    class_split,        \* for each class id written, the split its class was taken from
    num_src_classes,    \* number of classes the source data holds
    raised              \* the error that ended the conversion, "" when none

vars == <<gs, lp, wr, kind, seed, pc, npRng, pyRng, splitFile, specFile, spec_writes,
          shards, classes_per_split, class_names, images_per_class, bilevel, splits,
          queue, cur, lastCall, created, class_split, num_src_classes, raised>>

(***************************************************************************)
(* Bounds of the model.                                                    *)
(***************************************************************************)
\* largest t+v+s tried on gen_rand_split_inds alone
MaxSplitClasses == 4
\* the converters' NUM_TRAIN_CLASSES, NUM_VALID_CLASSES, NUM_TEST_CLASSES, scaled down
NumTrain == 1
NumValid == 1
NumTest == 1
\* number of states of each random generator
RngMod == 6
\* largest number of entries of one class directory / file list / annotation list
MaxFiles == 2
\* largest number of create_splits computations followed in one behaviour
MaxCreated == 2
\* largest number of characters of one Omniglot alphabet
MaxChars == 1
\* largest number of classes and alphabets of one conversion whose source is not
\* the plainest one
MaxVaried == 2

(***************************************************************************)
(* Sequences and sets.                                                     *)
(***************************************************************************)
Range(q) == {q[i] : i \in DOMAIN q}

Min(S) == CHOOSE x \in S : \A y \in S : x <= y

RECURSIVE SortedSeq(_)
SortedSeq(S) == IF S = {} THEN <<>> ELSE <<Min(S)>> \o SortedSeq(S \ {Min(S)})

RECURSIVE Arrangements(_, _)
\* the sequences of k distinct elements of S: the outcomes of a draw without replacement
Arrangements(S, k) ==
    IF k = 0 THEN {<<>>}
    ELSE UNION {{<<x>> \o a : a \in Arrangements(S \ {x}, k - 1)} : x \in S}

NoDup(q) == \A i, j \in DOMAIN q : i # j => q[i] # q[j]

\* np.arange(n)
arange(n) == [i \in 1..n |-> i - 1]

\* np.setdiff1d(a, b): the sorted, unique values of a that are not in b
setdiff1d(a, b) == SortedSeq(Range(a) \ Range(b))

(***************************************************************************)
(* gen_rand_split_inds.  The two np.random.choice(..., replace=False)      *)
(* results are parameters: the caller supplies them, either as any outcome *)
(* (SpecSplitInds) or as drawn from the generator state (the converters).  *)
(***************************************************************************)
gen_rand_split_inds_test_from_train(t, v, s, trainval_inds, train_inds) ==
    [train |-> train_inds,
     valid |-> setdiff1d(trainval_inds, train_inds),
     test  |-> setdiff1d(arange(t + v + s), train_inds)]

gen_rand_split_inds(t, v, s, trainval_inds, train_inds) ==
    [train |-> train_inds,
     valid |-> setdiff1d(trainval_inds, train_inds),
     test  |-> setdiff1d(arange(t + v + s), trainval_inds)]

NoSplits == [train |-> <<>>, valid |-> <<>>, test |-> <<>>]

GsInit ==
    \E t, v, s \in 0..MaxSplitClasses :
        /\ t + v + s <= MaxSplitClasses
        /\ gs = [pc |-> "called", t |-> t, v |-> v, s |-> s,
                 trainval_inds |-> <<>>, ret |-> NoSplits]

\* line 159: trainval_inds = np.random.choice(num_classes, num_trainval_classes, replace=False)
GsDrawTrainval ==
    /\ gs.pc = "called"
    /\ \E d \in Arrangements(0..(gs.t + gs.v + gs.s - 1), gs.t + gs.v) :
           gs' = [gs EXCEPT !.pc = "trainval_drawn", !.trainval_inds = d]

\* lines 161-169: the second draw, the two set differences and the return
GsDrawTrainAndReturn ==
    /\ gs.pc = "trainval_drawn"
    /\ \E d \in Arrangements(Range(gs.trainval_inds), gs.t) :
           gs' = [gs EXCEPT !.pc = "returned",
                            !.ret = gen_rand_split_inds(gs.t, gs.v, gs.s, gs.trainval_inds, d)]

(***************************************************************************)
(* load_and_process_image (lines 260-304).  A source file is what open()   *)
(* and Image.open() make of it; bytes are told apart by what encoded them. *)
(***************************************************************************)
Formats == {"JPEG", "PNG"}
Modes == {"RGB", "L"}
Pixels == {0, 1}

\* the files a path can name: unreadable, readable but no image, or an image
ImageFiles ==
    [readable : {FALSE}, decodable : {FALSE}, format : {"JPEG"}, mode : {"RGB"}, pix : {0}]
    \cup [readable : {TRUE}, decodable : {FALSE}, format : {"JPEG"}, mode : {"RGB"}, pix : {0}]
    \cup [readable : {TRUE}, decodable : {TRUE}, format : Formats, mode : Modes, pix : Pixels]

\* f.read(): the byte stream of the file as it lies on disk
FileBytes(f) ==
    [enc |-> "source", format |-> f.format, mode |-> f.mode, pix |-> f.pix, region |-> <<>>]

\* img.save(buf, format=fmt); buf.getvalue()
Save(img, fmt) ==
    [enc |-> "PIL", format |-> fmt, mode |-> img.mode, pix |-> img.pix, region |-> img.region]

NoBytes == [enc |-> "none", format |-> "", mode |-> "", pix |-> 0, region |-> <<>>]

\* a bug: inversion does not force the re-encoding
load_and_process_image_invert_unflagged(f, bbox, invert_img, output_format) ==
    IF ~f.readable \/ ~f.decodable THEN [err |-> "IOError", bytes |-> NoBytes]
    ELSE LET img0 == [mode |-> f.mode, pix |-> f.pix, region |-> <<>>]
             img1 == IF f.mode # "RGB" THEN [img0 EXCEPT !.mode = "RGB"] ELSE img0
             img2 == IF bbox # <<>> THEN [img1 EXCEPT !.region = bbox] ELSE img1
             img3 == IF invert_img THEN [img2 EXCEPT !.pix = 1 - @] ELSE img2
             img_needs_encoding ==
                 \/ f.format # output_format
                 \/ f.mode # "RGB"
                 \/ bbox # <<>>
         IN  [err |-> "",
              bytes |-> IF img_needs_encoding THEN Save(img3, output_format) ELSE FileBytes(f)]

\* bbox is <<>> for None and <<b>> for a box; the result is the bytes or the error raised
load_and_process_image(f, bbox, invert_img, output_format) ==
    IF ~f.readable \/ ~f.decodable THEN [err |-> "IOError", bytes |-> NoBytes]
    ELSE LET img0 == [mode |-> f.mode, pix |-> f.pix, region |-> <<>>]
             img1 == IF f.mode # "RGB" THEN [img0 EXCEPT !.mode = "RGB"] ELSE img0
             img2 == IF bbox # <<>> THEN [img1 EXCEPT !.region = bbox] ELSE img1
             img3 == IF invert_img THEN [img2 EXCEPT !.pix = 1 - @] ELSE img2
             img_needs_encoding ==
                 \/ f.format # output_format
                 \/ f.mode # "RGB"
                 \/ bbox # <<>>
                 \/ invert_img
         IN  [err |-> "",
              bytes |-> IF img_needs_encoding THEN Save(img3, output_format) ELSE FileBytes(f)]

Boxes == {<<>>, <<"box">>}

LpInit ==
    \E f \in ImageFiles, b \in Boxes, inv \in BOOLEAN, fmt \in Formats :
        lp = [pc |-> "called", file |-> f, bbox |-> b, invert_img |-> inv,
              output_format |-> fmt, err |-> "", bytes |-> NoBytes]

LpReturn ==
    /\ lp.pc = "called"
    /\ LET r == load_and_process_image(lp.file, lp.bbox, lp.invert_img, lp.output_format)
       IN  lp' = [lp EXCEPT !.pc = IF r.err = "" THEN "returned" ELSE "raised",
                            !.err = r.err, !.bytes = r.bytes]

(***************************************************************************)
(* The two global random generators.  A generator is a state; a draw       *)
(* without replacement is a function of the state and advances it.         *)
(***************************************************************************)
RngStates == 0..(RngMod - 1)

RngNext(r) == (r + 1) % RngMod

RngOut(r, n) == ((r * r + (r \div 2)) % n) + 1

RemoveAt(q, i) == SubSeq(q, 1, i - 1) \o SubSeq(q, i + 1, Len(q))

RECURSIVE Choice(_, _, _)
\* np.random.choice(pop, k, replace=False) and random.sample(pop, k) from state r
Choice(r, pop, k) ==
    IF k = 0 THEN [out |-> <<>>, rng |-> r]
    ELSE LET r1 == RngNext(r)
             i == RngOut(r1, Len(pop))
             rest == Choice(r1, RemoveAt(pop, i), k - 1)
         IN  [out |-> <<pop[i]>> \o rest.out, rng |-> rest.rng]

\* np.random.seed(s)
np_random_seed(s) == s % RngMod

\* random_seed=22, the default of DatasetConverter.__init__
DefaultSeed == 22

Seeds == {DefaultSeed, DefaultSeed + 1}

(***************************************************************************)
(* The converters.                                                         *)
(***************************************************************************)
Kinds == {"Omniglot", "Quickdraw", "CUBirds", "VGGFlower", "DTD", "Aircraft",
          "TrafficSign", "MSCOCO", "ImageNet", "Fungi", "MiniImageNet"}

\* the converters whose create_splits draws with gen_rand_split_inds
RandSplitKinds == {"Quickdraw", "CUBirds", "VGGFlower", "DTD", "Aircraft", "Fungi"}

\* the converters that call get_splits
SplitFileKinds == Kinds \ {"Omniglot", "ImageNet"}

NUM_TRAIN_CLASSES(k) == IF k \in {"TrafficSign", "MSCOCO"} THEN 0 ELSE NumTrain
NUM_VALID_CLASSES(k) == IF k = "TrafficSign" THEN 0 ELSE NumValid
NUM_TEST_CLASSES(k) == NumTest
NUM_TOTAL_CLASSES(k) == NUM_TRAIN_CLASSES(k) + NUM_VALID_CLASSES(k) + NUM_TEST_CLASSES(k)

\* a splits dictionary; n_keys is len(dict), which decides its truth value
Dict(tr, va, te) == [n_keys |-> 3, train |-> tr, valid |-> va, test |-> te]
EmptyDict == [n_keys |-> 0, train |-> <<>>, valid |-> <<>>, test |-> <<>>]
Truthy(d) == d.n_keys # 0

\* gen_rand_split_inds with its two draws taken from numpy's generator at state r
GenRandSplitInds(r, t, v, s) ==
    LET d1 == Choice(r, arange(t + v + s), t + v)
        d2 == Choice(d1.rng, d1.out, t)
        inds == gen_rand_split_inds(t, v, s, d1.out, d2.out)
    IN  [splits |-> Dict(inds.train, inds.valid, inds.test), np |-> d2.rng]

Created(d, np, py) == [err |-> "", splits |-> d, np |-> np, py |-> py]
CreateFailed(e, np, py) == [err |-> e, splits |-> EmptyDict, np |-> np, py |-> py]

\* self.create_splits() of converter k, with the generators at np and py and a
\* source of n classes
create_splits(k, np, py, n) ==
    LET t == NUM_TRAIN_CLASSES(k)
        v == NUM_VALID_CLASSES(k)
        s == NUM_TEST_CLASSES(k)
    IN  CASE k = "Quickdraw" ->
                 \* lines 761-770: 70% / 15% / 15% of the classes found
                 LET num_trainval == (85 * n) \div 100
                     num_train == (7 * n) \div 10
                     g == GenRandSplitInds(np, num_train, num_trainval - num_train,
                                           n - num_trainval)
                 IN  Created(g.splits, g.np, py)
          [] k = "CUBirds" ->
                 \* line 860: assert len(class_names) == self.NUM_TOTAL_CLASSES
                 IF n # t + v + s THEN CreateFailed("AssertionError", np, py)
                 ELSE LET g == GenRandSplitInds(np, t, v, s) IN Created(g.splits, g.np, py)
          [] k \in {"VGGFlower", "DTD", "Aircraft", "Fungi"} ->
                 LET g == GenRandSplitInds(np, t, v, s) IN Created(g.splits, g.np, py)
          [] k = "TrafficSign" ->
                 Created(Dict(<<>>, <<>>, arange(s)), np, py)
          [] k = "MSCOCO" ->
                 \* lines 1265-1279: random.sample of the categories, then three slices
                 LET sh == Choice(py, arange(n), n)
                 IN  Created(Dict(SubSeq(sh.out, 1, t), SubSeq(sh.out, t + 1, t + v),
                                  SubSeq(sh.out, t + v + 1, t + v + s)), np, sh.rng)
          [] k = "MiniImageNet" ->
                 Created(Dict(SubSeq(arange(t + v + s), 1, t),
                              SubSeq(arange(t + v + s), t + 1, t + v),
                              SubSeq(arange(t + v + s), t + v + 1, t + v + s)), np, py)
          [] OTHER -> CreateFailed("NotImplementedError", np, py)

\* pkl.dump / pkl.load of a splits dictionary
pkl_dump(d) == <<d>>
pkl_load(file) == file[1]

\* self.read_splits(): the dictionary of the file, or False when there is no file
read_splits(file) ==
    IF file # <<>> THEN [found |-> TRUE, value |-> pkl_load(file)]
    ELSE [found |-> FALSE, value |-> EmptyDict]

\* a bug: the cache is never consulted
get_splits_never_cached(k, sd, force_create, file, np, py, n) ==
    LET c == create_splits(k, np_random_seed(sd), py, n)
    IN  [ret |-> c.splits, err |-> c.err, hit |-> FALSE, reseeded |-> TRUE,
         called_create |-> TRUE, np |-> c.np, py |-> c.py,
         file |-> IF c.err = "" THEN pkl_dump(c.splits) ELSE file]

\* a bug: the generator is not re-seeded before create_splits
get_splits_unseeded(k, sd, force_create, file, np, py, n) ==
    LET rd == read_splits(file)
    IN  IF rd.found /\ Truthy(rd.value) /\ ~force_create
        THEN [ret |-> rd.value, err |-> "", hit |-> TRUE, reseeded |-> FALSE,
              called_create |-> FALSE, np |-> np, py |-> py, file |-> file]
        ELSE LET c == create_splits(k, np, py, n)
             IN  [ret |-> c.splits, err |-> c.err, hit |-> FALSE, reseeded |-> FALSE,
                  called_create |-> TRUE, np |-> c.np, py |-> c.py,
                  file |-> IF c.err = "" THEN pkl_dump(c.splits) ELSE file]

\* a bug: the created splits are returned but not written to the split file
get_splits_unsaved(k, sd, force_create, file, np, py, n) ==
    LET rd == read_splits(file)
    IN  IF rd.found /\ Truthy(rd.value) /\ ~force_create
        THEN [ret |-> rd.value, err |-> "", hit |-> TRUE, reseeded |-> FALSE,
              called_create |-> FALSE, np |-> np, py |-> py, file |-> file]
        ELSE LET c == create_splits(k, np_random_seed(sd), py, n)
             IN  [ret |-> c.splits, err |-> c.err, hit |-> FALSE, reseeded |-> TRUE,
                  called_create |-> TRUE, np |-> c.np, py |-> c.py, file |-> file]

\* a bug: the created splits are written to the split file only when force_create
\* is set
get_splits_saved_only_when_forced(k, sd, force_create, file, np, py, n) ==
    LET rd == read_splits(file)
    IN  IF rd.found /\ Truthy(rd.value) /\ ~force_create
        THEN [ret |-> rd.value, err |-> "", hit |-> TRUE, reseeded |-> FALSE,
              called_create |-> FALSE, np |-> np, py |-> py, file |-> file]
        ELSE LET c == create_splits(k, np_random_seed(sd), py, n)
             IN  [ret |-> c.splits, err |-> c.err, hit |-> FALSE, reseeded |-> TRUE,
                  called_create |-> TRUE, np |-> c.np, py |-> c.py,
                  file |-> IF c.err = "" /\ force_create THEN pkl_dump(c.splits) ELSE file]

\* a bug: an existing split file is returned even when force_create is set
get_splits_ignores_force_create(k, sd, force_create, file, np, py, n) ==
    LET rd == read_splits(file)
    IN  IF rd.found /\ Truthy(rd.value)
        THEN [ret |-> rd.value, err |-> "", hit |-> TRUE, reseeded |-> FALSE,
              called_create |-> FALSE, np |-> np, py |-> py, file |-> file]
        ELSE LET c == create_splits(k, np_random_seed(sd), py, n)
             IN  [ret |-> c.splits, err |-> c.err, hit |-> FALSE, reseeded |-> TRUE,
                  called_create |-> TRUE, np |-> c.np, py |-> c.py,
                  file |-> IF c.err = "" THEN pkl_dump(c.splits) ELSE file]

\* self.get_splits(force_create) of converter k with seed sd: what it returns or
\* raises, and the generators and the split file it leaves
get_splits(k, sd, force_create, file, np, py, n) ==
    LET rd == read_splits(file)
    IN  IF rd.found /\ Truthy(rd.value) /\ ~force_create
        THEN [ret |-> rd.value, err |-> "", hit |-> TRUE, reseeded |-> FALSE,
              called_create |-> FALSE, np |-> np, py |-> py, file |-> file]
        ELSE LET c == create_splits(k, np_random_seed(sd), py, n)
             IN  [ret |-> c.splits, err |-> c.err, hit |-> FALSE, reseeded |-> TRUE,
                  called_create |-> TRUE, np |-> c.np, py |-> c.py,
                  file |-> IF c.err = "" THEN pkl_dump(c.splits) ELSE file]

(***************************************************************************)
(* The shard writers.  A shard is the two datasets of one h5py file and    *)
(* whether the file is still open.                                         *)
(***************************************************************************)
\* h5py.File(output_path, 'w') and the two create_dataset calls with shape (n,):
\* n empty image slots and n labels holding the fill value 0
\* dataset.resize(m, 0) on a one-dimensional h5py dataset: the first m slots are
\* kept, new slots hold the fill value
Resize(q, m, fill) == [i \in 1..m |-> IF i <= Len(q) THEN q[i] ELSE fill]

\* dataset[n] = v, n counted from 0
SetSlot(q, n, v) == [q EXCEPT ![n + 1] = v]

NewShard(n) ==
    [images |-> [i \in 1..n |-> NoBytes], labels |-> [i \in 1..n |-> 0], open |-> TRUE]

CloseShard(sh) == [sh EXCEPT !.open = FALSE]

GoodFile == [readable |-> TRUE, decodable |-> TRUE, format |-> "JPEG", mode |-> "RGB", pix |-> 0]
RecodeFile == [readable |-> TRUE, decodable |-> TRUE, format |-> "PNG", mode |-> "L", pix |-> 1]
UnreadableFile ==
    [readable |-> FALSE, decodable |-> FALSE, format |-> "JPEG", mode |-> "RGB", pix |-> 0]
CorruptFile ==
    [readable |-> TRUE, decodable |-> FALSE, format |-> "JPEG", mode |-> "RGB", pix |-> 0]

Loads(f) == f.readable /\ f.decodable

\* bboxes is [none |-> TRUE] for bboxes=None, else the list of boxes
NoBoxes == [none |-> TRUE, boxes |-> <<>>]
BoxAt(bboxes, i) == IF bboxes.none THEN <<>> ELSE bboxes.boxes[i]

\* the state of the loop of write_tfrecord_from_image_files: the shard, the
\* count, the number of files the loop has taken, and the error that left it
WriterStart == [shard |-> NewShard(0), written_images_count |-> 0, i |-> 0, err |-> ""]

\* a bug: a file that cannot be loaded is skipped whatever skip_on_error says
writer_step_always_skips(w, f, bbox, class_label, invert_img, output_format, skip_on_error) ==
    LET r == load_and_process_image(f, bbox, invert_img, output_format)
    IN  IF r.err # ""
        THEN [w EXCEPT !.i = @ + 1]
        ELSE [w EXCEPT !.i = @ + 1,
                       !.shard.images = Append(@, r.bytes),
                       !.shard.labels = Append(@, 0),
                       !.written_images_count = @ + 1]

\* a bug: a skipped file still gets its slot, which stays empty
writer_step_skip_leaves_slot(w, f, bbox, class_label, invert_img, output_format, skip_on_error) ==
    LET r == load_and_process_image(f, bbox, invert_img, output_format)
    IN  IF r.err # ""
        THEN IF skip_on_error
             THEN [w EXCEPT !.i = @ + 1,
                            !.shard.images = Append(@, NoBytes),
                            !.shard.labels = Append(@, 0)]
             ELSE [w EXCEPT !.i = @ + 1, !.err = r.err]
        ELSE [w EXCEPT !.i = @ + 1,
                       !.shard.images = Append(@, r.bytes),
                       !.shard.labels = Append(@, 0),
                       !.written_images_count = @ + 1]

\* lines 311-325: one iteration of the loop over class_files.  The two resize
\* calls add one slot each; the image slot is assigned, the label slot is not
writer_step(w, f, bbox, class_label, invert_img, output_format, skip_on_error) ==
    LET r == load_and_process_image(f, bbox, invert_img, output_format)
        n == w.written_images_count
    IN  IF r.err # ""
        THEN IF skip_on_error THEN [w EXCEPT !.i = @ + 1]
             ELSE [w EXCEPT !.i = @ + 1, !.err = r.err]
        ELSE [w EXCEPT !.i = @ + 1,
                       !.shard.images = SetSlot(Resize(@, n + 1, NoBytes), n, r.bytes),
                       !.shard.labels = Resize(@, n + 1, 0),
                       !.written_images_count = n + 1]

RECURSIVE WriterLoop(_, _, _, _, _, _, _)
WriterLoop(w, class_files, bboxes, class_label, invert_img, output_format, skip_on_error) ==
    IF w.err # "" \/ w.i >= Len(class_files) THEN w
    ELSE WriterLoop(writer_step(w, class_files[w.i + 1], BoxAt(bboxes, w.i + 1), class_label,
                                invert_img, output_format, skip_on_error),
                    class_files, bboxes, class_label, invert_img, output_format, skip_on_error)

\* lines 327-328: writer.close(); return written_images_count.  ret is <<>>
\* when the call raised instead of returning
WriterReturn(w) ==
    IF w.err # "" THEN [shard |-> w.shard, ret |-> <<>>, err |-> w.err, taken |-> w.i]
    ELSE [shard |-> CloseShard(w.shard), ret |-> <<w.written_images_count>>, err |-> "",
          taken |-> w.i]

write_tfrecord_from_image_files(class_files, class_label, invert_img, bboxes, output_format, skip_on_error) ==
    WriterReturn(WriterLoop(WriterStart, class_files, bboxes, class_label, invert_img,
                            output_format, skip_on_error))

\* a directory entry: a file, a sub-directory, or a file named in files_to_skip
DirFile(f) == [type |-> "file", file |-> f]
SubDir == [type |-> "dir", file |-> UnreadableFile]
SkipFile == [type |-> "skip", file |-> GoodFile]

\* lines 356-365: the files of the listing that are kept
ClassFilesOf(entries) ==
    LET kept == SelectSeq(entries, LAMBDA e : e.type = "file")
    IN  [i \in 1..Len(kept) |-> kept[i].file]

\* write_tfrecord_from_directory (lines 331-376); the assertion of line 375
\* compares the number of files kept with the number written
write_tfrecord_from_directory(entries, class_label, invert_img, skip_on_error) ==
    LET class_files == ClassFilesOf(entries)
        r == write_tfrecord_from_image_files(class_files, class_label, invert_img, NoBoxes,
                                             "JPEG", skip_on_error)
    IN  IF r.err = "" /\ ~skip_on_error /\ Len(class_files) # r.ret[1]
        THEN [r EXCEPT !.err = "AssertionError", !.ret = <<>>]
        ELSE r

(***************************************************************************)
(* One write_tfrecord_from_image_files call, followed file by file.        *)
(***************************************************************************)
WriterFiles == {GoodFile, RecodeFile, UnreadableFile, CorruptFile}

RECURSIVE SeqsUpTo(_, _)
SeqsUpTo(S, n) ==
    IF n = 0 THEN {<<>>}
    ELSE LET shorter == SeqsUpTo(S, n - 1)
         IN  shorter \cup {Append(q, x) : q \in {p \in shorter : Len(p) = n - 1}, x \in S}

NoCallYet ==
    [pc |-> "none", class_label |-> 0, class_files |-> <<>>, bboxes |-> NoBoxes,
     invert_img |-> FALSE, skip_on_error |-> FALSE, w |-> WriterStart, ret |-> <<>>]

WrInit ==
    \E label \in 0..NumTrain, files \in SeqsUpTo(WriterFiles, MaxFiles),
       inv \in BOOLEAN, skip \in BOOLEAN, boxed \in BOOLEAN :
        wr = [pc |-> "open", class_label |-> label, class_files |-> files,
              bboxes |-> IF boxed THEN [none |-> FALSE, boxes |-> [i \in 1..Len(files) |-> <<"box">>]]
                         ELSE NoBoxes,
              invert_img |-> inv, skip_on_error |-> skip, w |-> WriterStart, ret |-> <<>>]

\* one iteration of the loop of lines 311-325
WrStep ==
    /\ wr.pc = "open"
    /\ wr.w.i < Len(wr.class_files)
    /\ LET w2 == writer_step(wr.w, wr.class_files[wr.w.i + 1], BoxAt(wr.bboxes, wr.w.i + 1),
                             wr.class_label, wr.invert_img, "JPEG", wr.skip_on_error)
       IN  wr' = [wr EXCEPT !.w = w2, !.pc = IF w2.err # "" THEN "raised" ELSE "open"]

\* lines 327-328
WrClose ==
    /\ wr.pc = "open"
    /\ wr.w.i = Len(wr.class_files)
    /\ LET r == WriterReturn(wr.w)
       IN  wr' = [wr EXCEPT !.pc = "closed", !.w.shard = r.shard, !.ret = r.ret]

(***************************************************************************)
(* The state of a converter instance and of the files it works on.         *)
(***************************************************************************)
ZeroPerSplit == [train |-> 0, valid |-> 0, test |-> 0]

NoCall ==
    [called |-> FALSE, force_create |-> FALSE, hit |-> FALSE, reseeded |-> FALSE,
     called_create |-> FALSE, ret |-> EmptyDict, err |-> "",
     file_before |-> <<>>, file_after |-> <<>>,
     np_before |-> 0, np_after |-> 0]

NoCur == [stage |-> "none", todo |-> 0, taken |-> 0]

\* DatasetConverter.__init__ and _init_specification (lines 422-502): the fields
\* of a new instance
FreshInstance ==
    /\ pc = "uninitialized"
    /\ classes_per_split = ZeroPerSplit
    /\ class_names = <<>>
    /\ images_per_class = <<>>
    /\ bilevel = [superclasses_per_split |-> ZeroPerSplit,
                  classes_per_superclass |-> <<>>, superclass_names |-> <<>>]
    /\ splits = EmptyDict
    /\ queue = <<>>
    /\ cur = NoCur
    /\ class_split = <<>>
    /\ spec_writes = 0
    /\ raised = ""

GsIdle == gs = [pc |-> "none", t |-> 0, v |-> 0, s |-> 0, trainval_inds |-> <<>>, ret |-> NoSplits]

LpIdle ==
    lp = [pc |-> "none", file |-> GoodFile, bbox |-> <<>>, invert_img |-> FALSE,
          output_format |-> "JPEG", err |-> "", bytes |-> NoBytes]

WrIdle == wr = NoCallYet

\* no converter at work: the state the function-level specifications keep fixed
ConverterIdle ==
    /\ kind = "Omniglot"
    /\ seed = DefaultSeed
    /\ npRng = 0
    /\ pyRng = 0
    /\ splitFile = <<>>
    /\ specFile = <<>>
    /\ shards = <<>>
    /\ lastCall = NoCall
    /\ created = <<>>
    /\ num_src_classes = 0
    /\ FreshInstance

converterVars ==
    <<kind, seed, pc, npRng, pyRng, splitFile, specFile, spec_writes, shards,
      classes_per_split, class_names, images_per_class, bilevel, splits, queue, cur,
      lastCall, created, class_split, num_src_classes, raised>>

\* MSCOCOConverter.__init__ takes no random_seed and passes none on (lines 1212-1249)
SeedsOf(k) == IF k = "MSCOCO" THEN {DefaultSeed} ELSE Seeds

\* the splits an earlier run of converter k has left in the split file, whatever
\* its seed was
EarlierSplits(k) ==
    {c.splits : c \in {x \in {create_splits(k, r, p, NUM_TOTAL_CLASSES(k)) :
                                  r \in RngStates, p \in RngStates} : x.err = ""}}

\* splits supplied by the user (the split_file argument): the classes in
\* descending order
SuppliedSplits(k) ==
    LET t == NUM_TRAIN_CLASSES(k)
        v == NUM_VALID_CLASSES(k)
        s == NUM_TEST_CLASSES(k)
        a == [i \in 1..(t + v + s) |-> t + v + s - i]
    IN  Dict(SubSeq(a, 1, t), SubSeq(a, t + 1, t + v), SubSeq(a, t + v + 1, t + v + s))

\* the split file before the first call: none, an empty mapping, or some splits
InitSplitFiles(k) ==
    IF k \in SplitFileKinds
    THEN {<<>>, pkl_dump(EmptyDict), pkl_dump(SuppliedSplits(k))}
         \cup {pkl_dump(d) : d \in EarlierSplits(k)}
    ELSE {<<>>}

\* the number of classes the source holds: what the converter expects, or one more.
\* MSCOCOConverter.__init__ raises unless the categories are num_all_classes
SrcClassCounts(k) ==
    IF k = "MSCOCO" THEN {NUM_TOTAL_CLASSES(k)}
    ELSE {NUM_TOTAL_CLASSES(k), NUM_TOTAL_CLASSES(k) + 1}

(***************************************************************************)
(* get_splits called on an instance; draws made by other code in between.  *)
(***************************************************************************)
SplitsInit ==
    /\ GsIdle /\ LpIdle /\ WrIdle
    /\ kind \in Kinds
    /\ seed \in SeedsOf(kind)
    /\ npRng = 0
    /\ pyRng = 0
    /\ splitFile \in InitSplitFiles(kind)
    /\ specFile = <<>>
    /\ shards = <<>>
    /\ lastCall = NoCall
    /\ created = <<>>
    /\ num_src_classes \in SrcClassCounts(kind)
    /\ FreshInstance

CallRecord(o, force_create) ==
    [called |-> TRUE, force_create |-> force_create, hit |-> o.hit,
     reseeded |-> o.reseeded, called_create |-> o.called_create,
     ret |-> o.ret, err |-> o.err,
     file_before |-> splitFile, file_after |-> o.file,
     np_before |-> npRng, np_after |-> o.np]

CreatedAfter(o) ==
    IF o.called_create /\ o.err = "" THEN Append(created, [seed |-> seed, splits |-> o.ret])
    ELSE created

\* converter.get_splits(force_create) called by a user of the instance
CallGetSplits(force_create) ==
    LET o == get_splits(kind, seed, force_create, splitFile, npRng, pyRng, num_src_classes)
    IN  /\ pc = "uninitialized"
        /\ Len(CreatedAfter(o)) <= MaxCreated
        /\ npRng' = o.np
        /\ pyRng' = o.py
        /\ splitFile' = o.file
        /\ lastCall' = CallRecord(o, force_create)
        /\ created' = CreatedAfter(o)
        /\ UNCHANGED <<gs, lp, wr, kind, seed, pc, specFile, spec_writes, shards,
                       classes_per_split, class_names, images_per_class, bilevel, splits,
                       queue, cur, class_split, num_src_classes, raised>>

\* other code of the process draws from numpy's generator (followed for the
\* converters that read it)
DrawNumpy ==
    /\ pc = "uninitialized"
    /\ kind \in RandSplitKinds
    /\ npRng' = RngNext(npRng)
    /\ UNCHANGED <<gs, lp, wr, kind, seed, pc, pyRng, splitFile, specFile, spec_writes,
                   shards, classes_per_split, class_names, images_per_class, bilevel,
                   splits, queue, cur, lastCall, created, class_split, num_src_classes,
                   raised>>

\* other code of the process draws from Python's generator (followed for the
\* converter that reads it)
DrawPython ==
    /\ pc = "uninitialized"
    /\ kind = "MSCOCO"
    /\ pyRng' = RngNext(pyRng)
    /\ UNCHANGED <<gs, lp, wr, kind, seed, pc, npRng, splitFile, specFile, spec_writes,
                   shards, classes_per_split, class_names, images_per_class, bilevel,
                   splits, queue, cur, lastCall, created, class_split, num_src_classes,
                   raised>>

\* a new instance of the same converter over the same files, with another seed
Construct ==
    /\ pc = "uninitialized"
    /\ \E sd \in SeedsOf(kind) \ {seed} : seed' = sd
    /\ UNCHANGED <<gs, lp, wr, kind, pc, npRng, pyRng, splitFile, specFile, spec_writes,
                   shards, classes_per_split, class_names, images_per_class, bilevel,
                   splits, queue, cur, lastCall, created, class_split, num_src_classes,
                   raised>>

SplitsNext ==
    \/ \E force_create \in BOOLEAN : CallGetSplits(force_create)
    \/ DrawNumpy
    \/ DrawPython
    \/ Construct

SpecSplits == SplitsInit /\ [][SplitsNext]_vars

(***************************************************************************)
(* The function-level specifications.                                      *)
(***************************************************************************)
SplitIndsInit == GsInit /\ LpIdle /\ WrIdle /\ ConverterIdle
SplitIndsNext ==
    \/ GsDrawTrainval /\ UNCHANGED <<lp, wr, converterVars>>
    \/ GsDrawTrainAndReturn /\ UNCHANGED <<lp, wr, converterVars>>
SpecSplitInds == SplitIndsInit /\ [][SplitIndsNext]_vars

RecodeInit == LpInit /\ GsIdle /\ WrIdle /\ ConverterIdle
RecodeNext == LpReturn /\ UNCHANGED <<gs, wr, converterVars>>
SpecRecode == RecodeInit /\ [][RecodeNext]_vars

WriterInit == WrInit /\ GsIdle /\ LpIdle /\ ConverterIdle
WriterNext ==
    \/ WrStep /\ UNCHANGED <<gs, lp, converterVars>>
    \/ WrClose /\ UNCHANGED <<gs, lp, converterVars>>
SpecWriter == WriterInit /\ [][WriterNext]_vars

(***************************************************************************)
(* MSCOCO's crop of one annotation (get_image_crop_and_class_id, lines     *)
(* 1300-1338).  A coordinate is a float in the code; here it is a whole     *)
(* number of 200ths of a pixel, the exact value for a box in whole pixels  *)
(* and a ratio in tenths.  For the boxes, ratios and sizes tried below the *)
(* floats of the code give the same bounds.                                *)
(***************************************************************************)
PerPixel == 2 * 10 * 10

Px(n) == n * PerPixel

max(a, b) == IF a >= b THEN a ELSE b

min(a, b) == IF a <= b THEN a ELSE b

\* lines 1313-1319; scale_ratio is in tenths
scale_box(bbox, scale_ratio) ==
    LET x == bbox[1]
        y == bbox[2]
        w == bbox[3]
        h == bbox[4]
    IN  <<x - (w * (scale_ratio - 10)) \div 20,
          y - (h * (scale_ratio - 10)) \div 20,
          (w * scale_ratio) \div 10,
          (h * scale_ratio) \div 10>>

\* Python's round() followed by int(): to the nearest whole number; a value
\* halfway between two is rounded to the even one by Python 3 and away from
\* zero by Python 2
round(number, py) ==
    LET f == number \div PerPixel
        rest == number % PerPixel
    IN  IF 2 * rest < PerPixel THEN f
        ELSE IF 2 * rest > PerPixel THEN f + 1
        ELSE IF py = 3 THEN (IF f % 2 = 0 THEN f ELSE f + 1)
        ELSE IF number >= 0 THEN f + 1 ELSE f

\* lines 1329-1332: the crop bounds <<xmin, ymin, xmax, ymax>> of a scaled box
crop_bounds(box, image_w, image_h, py) ==
    LET x == box[1]
        y == box[2]
        w == box[3]
        h == box[4]
    IN  <<max(round(x - PerPixel \div 2, py), 0),
          max(round(y - PerPixel \div 2, py), 0),
          min(round(x + w - PerPixel \div 2, py) + 1, image_w),
          min(round(y + h - PerPixel \div 2, py) + 1, image_h)>>

\* the interpreters the module runs under
Pythons == {2, 3}
\* the boxes, ratios and image sizes tried, in whole pixels and tenths
BoxCorners == {0, 5, 10}
BoxSizes == {1, 10}
ScaleRatios == {10, 12, 15, 20}
ImageSizes == {5, 22, 30}

CropInit ==
    /\ GsIdle /\ LpIdle /\ WrIdle
    /\ kind = "MSCOCO"
    /\ seed = DefaultSeed
    /\ npRng = 0
    /\ pyRng = 0
    /\ splitFile = <<>>
    /\ specFile = <<>>
    /\ shards = <<>>
    /\ lastCall = NoCall
    /\ created = <<>>
    /\ num_src_classes = 0
    /\ pc = "uninitialized"
    /\ classes_per_split = ZeroPerSplit
    /\ class_names = <<>>
    /\ images_per_class = <<>>
    /\ bilevel = [superclasses_per_split |-> ZeroPerSplit,
                  classes_per_superclass |-> <<>>, superclass_names |-> <<>>]
    /\ splits = EmptyDict
    /\ queue = <<>>
    /\ class_split = <<>>
    /\ spec_writes = 0
    /\ raised = ""
    /\ \E py \in Pythons, x \in BoxCorners, y \in BoxCorners, w \in BoxSizes, h \in BoxSizes,
          r \in ScaleRatios, iw \in ImageSizes, ih \in ImageSizes :
           cur = [stage |-> "crop_called", py |-> py, bbox |-> <<Px(x), Px(y), Px(w), Px(h)>>,
                  box_scale_ratio |-> r, image_w |-> iw, image_h |-> ih,
                  box |-> <<>>, bounds |-> <<>>, err |-> ""]

cropOther ==
    <<gs, lp, wr, kind, seed, pc, npRng, pyRng, splitFile, specFile, spec_writes, shards,
      classes_per_split, class_names, images_per_class, bilevel, splits, queue,
      lastCall, created, class_split, num_src_classes, raised>>

\* line 1321
CropScaleBox ==
    /\ cur.stage = "crop_called"
    /\ cur' = [cur EXCEPT !.stage = "scaled", !.box = scale_box(cur.bbox, cur.box_scale_ratio)]
    /\ UNCHANGED cropOther

\* lines 1329-1336
CropImage ==
    /\ cur.stage = "scaled"
    /\ LET b == crop_bounds(cur.box, cur.image_w, cur.image_h, cur.py)
           crop_width == b[3] - b[1]
           crop_height == b[4] - b[2]
           bad == crop_width <= 0 \/ crop_height <= 0
       IN  cur' = [cur EXCEPT !.stage = IF bad THEN "crop_raised" ELSE "cropped",
                              !.bounds = b,
                              !.err = IF bad THEN "ValueError" ELSE ""]
    /\ UNCHANGED cropOther

CropNext ==
    \/ CropScaleBox
    \/ CropImage

SpecCrop == CropInit /\ [][CropNext]_vars

\* the bounding box (x=10.0, y=10.0, w=10.0, h=10.0) with ratio 1.2 on an image
\* of at least 22 by 22 pixels
ExampleCrop ==
    /\ kind = "MSCOCO"
    /\ cur.stage \in {"scaled", "cropped"}
    /\ cur.bbox = <<Px(10), Px(10), Px(10), Px(10)>>
    /\ cur.box_scale_ratio = 12
    /\ cur.image_w >= 22
    /\ cur.image_h >= 22

\* C16: the box (10.0, 10.0, 10.0, 10.0) scaled by 1.2 becomes (9.0, 9.0, 12.0,
\* 12.0) and its crop bounds on an image of at least 22 by 22 pixels are xmin = 8,
\* ymin = 8, xmax = 22, ymax = 22; and the bounds of every crop lie within the
\* image: 0 <= xmin, 0 <= ymin, xmax <= image width, ymax <= image height.
C16_CropBounds ==
    /\ ExampleCrop => cur.box = <<Px(9), Px(9), Px(12), Px(12)>>
    /\ (ExampleCrop /\ cur.stage = "cropped") => cur.bounds = <<8, 8, 22, 22>>
    /\ (kind = "MSCOCO" /\ cur.stage \in {"cropped", "crop_raised"}) =>
           /\ 0 <= cur.bounds[1]
           /\ 0 <= cur.bounds[2]
           /\ cur.bounds[3] <= cur.image_w
           /\ cur.bounds[4] <= cur.image_h

(***************************************************************************)
(* convert_dataset: the conversion of one dataset by one instance.         *)
(***************************************************************************)
SplitNames == <<"train", "valid", "test">>

\* the converters that hand a class directory to write_tfrecord_from_directory
DirectoryKinds == {"Omniglot", "CUBirds", "DTD", "TrafficSign", "ImageNet"}
\* those of them that pass files_to_skip
SkipListKinds == {"DTD", "TrafficSign", "ImageNet"}
\* the converters that hand a list of paths to write_tfrecord_from_image_files
FileListKinds == {"VGGFlower", "Fungi"}
\* the converters whose create_dataset_specification_and_records ends with
\* self.write_data_spec_pkl()
SelfWritingKinds == Kinds \ {"Omniglot", "ImageNet"}

\* what a class directory can hold, and what a list of paths can name
EntriesOf(k) ==
    {DirFile(GoodFile), DirFile(UnreadableFile), SubDir}
    \cup (IF k \in SkipListKinds THEN {SkipFile} ELSE {})
PathsOf(k) == {GoodFile, UnreadableFile, CorruptFile}

\* an image built from an array row (Image.fromarray) and saved as JPEG
ArrayImageBytes == Save([mode |-> "RGB", pix |-> 0, region |-> <<>>], "JPEG")

ClassItem(split, native, cid) ==
    [type |-> "class", split |-> split, native |-> native, cid |-> cid, first |-> FALSE]

\* the classes of one split list, with the ids enumerate() gives from offset on
ClassItems(list, split, offset) ==
    [i \in 1..Len(list) |-> ClassItem(split, list[i], offset + i - 1)]

\* the classes of one split list under the ids the list itself holds
NativeIdItems(list, split) ==
    [i \in 1..Len(list) |-> ClassItem(split, list[i], list[i])]

AlphabetItems(n, split) ==
    [i \in 1..n |-> [type |-> "alphabet", split |-> split, native |-> i - 1, cid |-> 0,
                     first |-> (i = 1)]]

\* np.concatenate([train_classes, valid_classes, test_classes]) under enumerate()
AllClassesEnumerated(d) ==
    ClassItems(d.train, "train", 0)
    \o ClassItems(d.valid, "valid", Len(d.train))
    \o ClassItems(d.test, "test", Len(d.train) + Len(d.valid))

\* lines 880-882 and their copies: classes_per_split from the lengths of the lists
CountsOf(d) == [train |-> Len(d.train), valid |-> Len(d.valid), test |-> Len(d.test)]

\* lines 1290-1293: coco_id_to_class_id, by position in train + valid + test
\* (a later position wins when an id occurs twice)
CocoIdToClassId(d) ==
    LET all == d.train \o d.valid \o d.test
    IN  [id \in Range(all) |-> (CHOOSE i \in DOMAIN all :
                                    all[i] = id /\ \A j \in DOMAIN all : all[j] = id => j <= i) - 1]

SplitOfPosition(d, c) ==
    IF c < Len(d.train) THEN "train"
    ELSE IF c < Len(d.train) + Len(d.valid) THEN "valid" ELSE "test"

\* the dataset specification object as pkl.dump writes it
SpecSnapshot ==
    [has_superclasses |-> (kind = "Omniglot"),
     classes_per_split |-> classes_per_split,
     images_per_class |-> images_per_class,
     class_names |-> class_names,
     bilevel |-> bilevel]

\* the split file a conversion finds: none, an empty mapping, a supplied one, or
\* the one a get_splits call of an earlier run with this seed has written
ConvertSplitFiles(k, sd, py) ==
    IF k \notin SplitFileKinds THEN {<<>>}
    ELSE {<<>>, pkl_dump(EmptyDict), pkl_dump(SuppliedSplits(k))}
         \cup {get_splits(k, sd, TRUE, <<>>, 0, py, NUM_TOTAL_CLASSES(k)).file}

\* the specification an earlier conversion by converter k has persisted, each
\* class having had the plainest source (each alphabet one character)
EarlierSpec(k) ==
    LET ids == 0..(NUM_TOTAL_CLASSES(k) - 1)
    IN  [has_superclasses |-> (k = "Omniglot"),
         classes_per_split |->
             IF k \in {"Omniglot", "ImageNet"} THEN ZeroPerSplit
             ELSE [train |-> NUM_TRAIN_CLASSES(k), valid |-> NUM_VALID_CLASSES(k),
                   test |-> NUM_TEST_CLASSES(k)],
         images_per_class |->
             IF k = "ImageNet" THEN <<>>
             ELSE [c \in ids |-> IF k = "Quickdraw" THEN 0 ELSE 1],
         class_names |-> [c \in ids |-> "name"],
         bilevel |->
             IF k = "Omniglot"
             THEN [superclasses_per_split |->
                       [train |-> NumTrain, valid |-> NumValid, test |-> NumTest],
                   classes_per_superclass |-> [c \in ids |-> 1],
                   superclass_names |-> [c \in ids |-> "alphabet"]]
             ELSE [superclasses_per_split |-> ZeroPerSplit,
                   classes_per_superclass |-> <<>>, superclass_names |-> <<>>]]

\* the converters a conversion of which can succeed
RerunKinds == Kinds \ {"Aircraft", "MSCOCO"}

\* what a conversion finds at its split file and at dataset_spec_path: no
\* specification and any of the split files, or, in a records_path an earlier
\* conversion has succeeded in, the specification of that conversion together
\* with the split file it has left
FilesFound(k, sd, py) ==
    {[split |-> f, spec |-> <<>>] : f \in ConvertSplitFiles(k, sd, py)}
    \cup (IF k \in RerunKinds
          THEN {[split |-> IF k \in SplitFileKinds
                           THEN get_splits(k, sd, TRUE, <<>>, 0, py, NUM_TOTAL_CLASSES(k)).file
                           ELSE <<>>,
                 spec |-> <<EarlierSpec(k)>>]}
          ELSE {})

\* the conversion of one dataset: a new instance with the default random_seed
\* (line 400); shards holds the shard files this conversion writes
ConvertInit ==
    /\ GsIdle /\ LpIdle /\ WrIdle
    /\ kind \in Kinds
    /\ seed = DefaultSeed
    /\ npRng = 0
    /\ pyRng \in (IF kind = "MSCOCO" THEN RngStates ELSE {0})
    /\ \E found \in FilesFound(kind, seed, pyRng) :
           /\ splitFile = found.split
           /\ specFile = found.spec
    /\ shards = <<>>
    /\ lastCall = NoCall
    /\ created = <<>>
    /\ num_src_classes \in SrcClassCounts(kind)
    /\ FreshInstance

Fail(e) == pc' = "failed" /\ raised' = e
\* the method returns after the first class instead of after the last
AfterItems_leaves_the_loop_early(q) ==
    IF kind \in SelfWritingKinds THEN "materialized" ELSE "create_returned"

\* where the conversion stands once the queue q is what is left of the loops
AfterItems(q) ==
    IF q # <<>> THEN "writing"
    ELSE IF kind \in SelfWritingKinds THEN "materialized" ELSE "create_returned"

\* the start of create_dataset_specification_and_records of the converters
\* without a split file: Omniglot lists its alphabets (lines 731-740), ImageNet
\* the synsets of its three subgraphs (lines 1452-1465); both assert the counts
ListSourceClasses ==
    /\ pc = "uninitialized"
    /\ kind \in {"Omniglot", "ImageNet"}
    /\ IF num_src_classes # NUM_TOTAL_CLASSES(kind)
       THEN /\ Fail("AssertionError")
            /\ UNCHANGED queue
       ELSE /\ pc' = "writing"
            /\ raised' = raised
            /\ queue' = IF kind = "Omniglot"
                        THEN AlphabetItems(NumTrain, "train") \o AlphabetItems(NumValid, "valid")
                             \o AlphabetItems(NumTest, "test")
                        ELSE ClassItems(arange(NumTrain), "train", 0)
                             \o ClassItems(arange(NumValid), "valid", NumTrain)
                             \o ClassItems(arange(NumTest), "test", NumTrain + NumValid)
    /\ UNCHANGED <<gs, lp, wr, kind, seed, npRng, pyRng, splitFile, specFile, spec_writes,
                   shards, classes_per_split, class_names, images_per_class, bilevel,
                   splits, cur, lastCall, created, class_split, num_src_classes>>

\* the classes the loops of converter k go through for the splits d; names
\* gives, for MiniImageNet, the number of class names each cache file holds
QueueFor(k, d, names) ==
    CASE k = "TrafficSign" -> NativeIdItems(d.test, "test")
      [] k = "MiniImageNet" ->
             \* line 1642: zip(classes, names) stops at the shorter of the two
             NativeIdItems(SubSeq(d.train, 1, Min({Len(d.train), names.train})), "train")
             \o NativeIdItems(SubSeq(d.valid, 1, Min({Len(d.valid), names.valid})), "valid")
             \o NativeIdItems(SubSeq(d.test, 1, Min({Len(d.test), names.test})), "test")
      [] k = "MSCOCO" -> <<>>
      [] OTHER -> AllClassesEnumerated(d)

\* the numbers of class names a MiniImageNet cache file can hold for a split
\* list: as many as the list has classes, or one fewer
NameCounts(k, list) ==
    IF k = "MiniImageNet" THEN {Len(list)} \cup ({Len(list) - 1} \cap Nat) ELSE {0}

\* what can raise between get_splits and a converter's loop over the classes,
\* "" standing for nothing raised: the class-count assertions of Aircraft (line
\* 1117) and Fungi (line 1548); the call of cmp at line 1538, a NameError where
\* the interpreter has no cmp; pkl.load on a cache file opened in text mode at
\* lines 1637-1638 and loadmat on a file opened in text mode at lines 939-940,
\* an error where the interpreter decodes text files
ConfigErrors(k, d, n) ==
    CASE k = "Aircraft" ->
             IF n # Len(d.train) + Len(d.valid) + Len(d.test) THEN {"AssertionError"} ELSE {""}
      [] k = "Fungi" ->
             {"NameError"} \cup (IF n # Len(d.train) + Len(d.valid) + Len(d.test)
                                 THEN {"AssertionError"} ELSE {""})
      [] k \in {"MiniImageNet", "VGGFlower"} -> {"", "TypeError", "UnicodeDecodeError"}
      [] OTHER -> {""}

\* the start of create_dataset_specification_and_records of the converters
\* with a split file: get_splits(), classes_per_split, the checks, and for
\* MSCOCO the class names of all categories (lines 1284-1298)
ResolveSplits ==
    /\ pc = "uninitialized"
    /\ kind \in SplitFileKinds
    /\ \E o \in {get_splits(kind, seed, FALSE, splitFile, npRng, pyRng, num_src_classes)} :
       \E d \in {o.ret} :
       \E e \in (IF o.err # "" THEN {o.err} ELSE ConfigErrors(kind, d, num_src_classes)) :
           /\ npRng' = o.np
           /\ pyRng' = o.py
           /\ splitFile' = o.file
           /\ lastCall' = CallRecord(o, FALSE)
           /\ created' = CreatedAfter(o)
           /\ IF o.err # ""
              THEN /\ Fail(o.err)
                   /\ UNCHANGED <<splits, classes_per_split, class_names, class_split, queue,
                                  cur>>
              ELSE /\ splits' = d
                   /\ classes_per_split' =
                          IF kind = "Quickdraw" THEN classes_per_split ELSE CountsOf(d)
                   /\ IF e # ""
                      THEN /\ Fail(e)
                           /\ UNCHANGED <<class_names, class_split, queue, cur>>
                      ELSE /\ raised' = raised
                           /\ \E nt \in NameCounts(kind, d.train),
                                 nv \in NameCounts(kind, d.valid),
                                 ns \in NameCounts(kind, d.test) :
                                  LET q == QueueFor(kind, d,
                                                    [train |-> nt, valid |-> nv, test |-> ns])
                                  IN  /\ queue' = q
                                      /\ pc' = IF kind = "MSCOCO" THEN "writing"
                                               ELSE AfterItems(q)
                           /\ IF kind = "MSCOCO"
                              THEN /\ class_names' =
                                          [c \in Range(CocoIdToClassId(d)) |-> "category"]
                                   /\ class_split' =
                                          [c \in Range(CocoIdToClassId(d)) |->
                                              SplitOfPosition(d, c)]
                                   /\ cur' = [stage |-> "open_writers", todo |-> 0, taken |-> 0]
                              ELSE UNCHANGED <<class_names, class_split, cur>>
    /\ UNCHANGED <<gs, lp, wr, kind, seed, specFile, spec_writes, shards, images_per_class,
                   bilevel, num_src_classes>>

\* d[k] = v on a dict
Put(d, k, v) == [x \in (DOMAIN d) \cup {k} |-> IF x = k THEN v ELSE d[x]]

\* d[k] on a collections.defaultdict(int)
GetInt(d, k) == IF k \in DOMAIN d THEN d[k] ELSE 0

\* len(self.class_names)
len_class_names == Cardinality(DOMAIN class_names)

\* the class label the loop gives the class: len(self.class_names) (lines 689,
\* 790), the position under enumerate(), or the id the split list holds
ClassLabelOf(item) ==
    IF kind \in {"Omniglot", "Quickdraw"} THEN len_class_names ELSE item.cid

\* the frame of a write_tfrecord_from_image_files call that has ended
EndedCall(class_files, class_label, invert_img, skip_on_error, r) ==
    [pc |-> IF r.err = "" THEN "closed" ELSE "raised",
     class_label |-> class_label, class_files |-> class_files, bboxes |-> NoBoxes,
     invert_img |-> invert_img, skip_on_error |-> skip_on_error,
     w |-> [shard |-> r.shard, written_images_count |-> Len(r.shard.images),
            i |-> r.taken, err |-> IF r.err = "AssertionError" THEN "" ELSE r.err],
     ret |-> r.ret]

\* write_tfrecord_from_npy_single_channel (lines 172-229) on n rows: the shard
\* is created with n slots; line 225 calls getvalue() on the PIL image
write_tfrecord_from_npy_single_channel(n, class_label) ==
    IF n > 0
    THEN [shard |-> NewShard(n), ret |-> <<>>, err |-> "AttributeError", taken |-> 1]
    ELSE [shard |-> CloseShard(NewShard(0)), ret |-> <<0>>, err |-> "", taken |-> 0]

\* lines 1650-1662: the shard of one MiniImageNet class of n images
MiniImageNetShard(n, class_id) ==
    [images |-> [i \in 1..n |-> ArrayImageBytes], labels |-> [i \in 1..n |-> class_id],
     open |-> FALSE]

\* the writer call of one iteration of a converter's loop over its classes
\* (lines 699, 802, 894, 962, 1021, 1136, 1193, 1479, 1585, 1650-1662), on
\* the entries of the class directory, the paths of the class, or the n rows
\* or indices of the class
WriterCall(k, class_label, entries, paths, n) ==
    CASE k \in DirectoryKinds ->
             write_tfrecord_from_directory(entries, class_label, k = "Omniglot", k = "ImageNet")
      [] k \in FileListKinds ->
             write_tfrecord_from_image_files(paths, class_label, FALSE, NoBoxes, "JPEG", FALSE)
      [] k = "Quickdraw" -> write_tfrecord_from_npy_single_channel(n, class_label)
      [] k = "MiniImageNet" ->
             [shard |-> MiniImageNetShard(n, class_label), ret |-> <<n>>, err |-> "",
              taken |-> n]
      [] OTHER ->
             \* line 1136: write_frecord_from_image_files is no name
             [shard |-> NewShard(0), ret |-> <<>>, err |-> "NameError", taken |-> 0]

\* what the iteration assigns to images_per_class[class_label], <<>> when it
\* assigns nothing: the length of the listing (lines 695, 892), of the paths
\* (lines 960, 1134, 1583) or of the indices (line 1648) before the writer
\* call, or what the writer call returned (lines 804, 1021, 1193)
CountRecorded(k, entries, paths, n, r) ==
    CASE k \in {"Omniglot", "CUBirds"} -> <<Len(entries)>>
      [] k \in FileListKinds \cup {"Aircraft"} -> <<Len(paths)>>
      [] k = "MiniImageNet" -> <<n>>
      [] k \in {"DTD", "TrafficSign", "Quickdraw"} /\ r.err = "" -> r.ret
      [] OTHER -> <<>>

\* the source of one class as converter k reads it: the entries of its
\* directory, its list of paths, or the number n of its rows or indices
SourcesOf(k) ==
    CASE k \in DirectoryKinds ->
             {[entries |-> e, paths |-> <<>>, n |-> 0] : e \in SeqsUpTo(EntriesOf(k), MaxFiles)}
      [] k \in FileListKinds \cup {"Aircraft"} ->
             {[entries |-> <<>>, paths |-> q, n |-> 0] : q \in SeqsUpTo(PathsOf(k), MaxFiles)}
      [] OTHER -> {[entries |-> <<>>, paths |-> <<>>, n |-> i] : i \in 0..MaxFiles}

\* the plainest source of a class: one readable JPEG (an empty array for
\* Quickdraw)
PlainEntries(k) == IF k \in DirectoryKinds THEN <<DirFile(GoodFile)>> ELSE <<>>
PlainPaths(k) == IF k \in FileListKinds \cup {"Aircraft"} THEN <<GoodFile>> ELSE <<>>
PlainRows(k) == IF k = "MiniImageNet" THEN 1 ELSE 0
PlainSource(k) == [entries |-> PlainEntries(k), paths |-> PlainPaths(k), n |-> PlainRows(k)]

\* the classes written so far whose source was not the plainest one
VariedClasses ==
    {c \in DOMAIN shards :
        LET r == WriterCall(kind, c, PlainEntries(kind), PlainPaths(kind), PlainRows(kind))
            cnt == CountRecorded(kind, PlainEntries(kind), PlainPaths(kind), PlainRows(kind), r)
        IN  \/ shards[c] # r.shard
            \/ cnt # <<>> /\ GetInt(images_per_class, c) # cnt[1]}

\* the classes and, for Omniglot (counted in cur.todo), the alphabets met so
\* far whose source was not the plainest one: one character for an alphabet
VariedSoFar ==
    Cardinality(VariedClasses) + (IF kind = "Omniglot" THEN cur.todo ELSE 0)

\* one iteration of a converter's loop over its classes, with the writer call
\* it makes: the body of the loops at lines 687-704, 789-804, 886-895, 953-962,
\* 1010-1025, 1119-1137, 1184-1197, 1470-1484, 1576-1585, 1642-1662
WriteClass ==
    /\ pc = "writing"
    /\ queue # <<>>
    /\ Head(queue).type = "class"
    /\ \E src \in (IF VariedSoFar < MaxVaried THEN SourcesOf(kind)
                    ELSE {PlainSource(kind)}) :
       \E entries \in {src.entries}, paths \in {src.paths}, n \in {src.n} :
       \E class_label \in {ClassLabelOf(Head(queue))} :
       \E r \in {WriterCall(kind, class_label, entries, paths, n)} :
       \E cnt \in {CountRecorded(kind, entries, paths, n, r)} :
           /\ class_names' = Put(class_names, class_label, "name")
           /\ classes_per_split' =
                  IF kind = "Quickdraw"
                  THEN [classes_per_split EXCEPT ![Head(queue).split] = @ + 1]
                  ELSE classes_per_split
           /\ class_split' = Put(class_split, class_label, Head(queue).split)
           /\ images_per_class' =
                  IF cnt = <<>> THEN images_per_class
                  ELSE Put(images_per_class, class_label, cnt[1])
           /\ shards' = IF kind = "Aircraft" THEN shards ELSE Put(shards, class_label, r.shard)
           /\ wr' = CASE kind \in DirectoryKinds ->
                             EndedCall(ClassFilesOf(entries), class_label, kind = "Omniglot",
                                       kind = "ImageNet", r)
                      [] kind \in FileListKinds -> EndedCall(paths, class_label, FALSE, FALSE, r)
                      [] OTHER -> wr
           /\ IF r.err # ""
              THEN /\ Fail(r.err)
                   /\ UNCHANGED <<queue, bilevel>>
              ELSE /\ queue' = Tail(queue)
                   /\ pc' = AfterItems(Tail(queue))
                   /\ raised' = raised
                   /\ bilevel' =
                          IF kind = "Omniglot"
                          THEN \* lines 702-704
                               LET superclass_label ==
                                       Cardinality(DOMAIN bilevel.superclass_names)
                               IN  [bilevel EXCEPT
                                      !.classes_per_superclass =
                                          Put(@, superclass_label,
                                              GetInt(@, superclass_label) + 1)]
                          ELSE bilevel
    /\ cur' = IF kind = "Omniglot"
              THEN [cur EXCEPT !.taken = Cardinality(DOMAIN bilevel.superclass_names),
                               !.stage = "superclass_label"]
              ELSE cur
    /\ UNCHANGED <<gs, lp, kind, seed, npRng, pyRng, splitFile, specFile, spec_writes, splits,
                   lastCall, created, num_src_classes>>

\* line 687: the listing of one alphabet's directory; the local superclass_label
\* of parse_split_data is unbound when the call starts
OpenAlphabet ==
    /\ pc = "writing"
    /\ queue # <<>>
    /\ Head(queue).type = "alphabet"
    /\ \E chars \in (IF VariedSoFar < MaxVaried THEN 0..MaxChars ELSE {1}) :
           /\ queue' = [i \in 1..chars |-> ClassItem(Head(queue).split, i - 1, 0)]
                        \o <<[Head(queue) EXCEPT !.type = "alphabet_end"]>>
                        \o Tail(queue)
           /\ cur' = [(IF Head(queue).first THEN NoCur ELSE cur) EXCEPT
                        !.todo = cur.todo + (IF chars = 1 THEN 0 ELSE 1)]
    /\ UNCHANGED <<gs, lp, wr, kind, seed, pc, npRng, pyRng, splitFile, specFile, spec_writes,
                   shards, classes_per_split, class_names, images_per_class, bilevel, splits,
                   lastCall, created, class_split, num_src_classes, raised>>

\* lines 706-708: the alphabet becomes a superclass under superclass_label, the
\* variable the inner loop assigned last
CloseAlphabet ==
    /\ pc = "writing"
    /\ queue # <<>>
    /\ Head(queue).type = "alphabet_end"
    /\ LET split == Head(queue).split
       IN  IF cur.stage # "superclass_label"
           THEN /\ bilevel' = [bilevel EXCEPT !.superclasses_per_split[split] = @ + 1]
                /\ Fail("UnboundLocalError")
                /\ UNCHANGED queue
           ELSE /\ bilevel' = [bilevel EXCEPT
                                 !.superclasses_per_split[split] = @ + 1,
                                 !.superclass_names = Put(@, cur.taken, "alphabet")]
                /\ queue' = Tail(queue)
                /\ pc' = AfterItems(Tail(queue))
                /\ raised' = raised
    /\ UNCHANGED <<gs, lp, wr, kind, seed, npRng, pyRng, splitFile, specFile, spec_writes,
                   shards, classes_per_split, class_names, images_per_class, splits, cur,
                   lastCall, created, class_split, num_src_classes>>

\* lines 1364-1366: the JPEG encoding of the crop of the i-th annotation
CropBytes(i) == Save([mode |-> "RGB", pix |-> 0, region |-> <<"crop", i>>], "JPEG")

\* a bug: every crop is written to the first slot
coco_append_to_first_slot(fp, n, image_crop_bytes, class_id) ==
    [fp EXCEPT !.images = SetSlot(Resize(@, n + 1, NoBytes), 0, image_crop_bytes),
               !.labels = SetSlot(Resize(@, n + 1, 0), 0, class_id)]

\* lines 1368-1372: both datasets of the class's shard are resized to n + 1, n
\* being self.images_per_class[class_id], and slot n of each is assigned
coco_append(fp, n, image_crop_bytes, class_id) ==
    [fp EXCEPT !.images = SetSlot(Resize(@, n + 1, NoBytes), n, image_crop_bytes),
               !.labels = SetSlot(Resize(@, n + 1, 0), n, class_id)]

\* lines 1339-1348: one open shard for each class id of MSCOCO
CocoOpenWriters ==
    /\ pc = "writing"
    /\ kind = "MSCOCO"
    /\ cur.stage = "open_writers"
    /\ shards' = [c \in 0..(num_src_classes - 1) |-> NewShard(0)]
    /\ \E todo \in 1..MaxFiles :
           cur' = [stage |-> "annotations", todo |-> todo, taken |-> 0, outcome |-> ""]
    /\ UNCHANGED <<gs, lp, wr, kind, seed, pc, npRng, pyRng, splitFile, specFile, spec_writes,
                   classes_per_split, class_names, images_per_class, bilevel, splits, queue,
                   lastCall, created, class_split, num_src_classes, raised>>

\* the annotations tried: one whose image cannot be opened, one whose box lies
\* within its image, one whose box lies to the right of and below its image
CocoSources ==
    {[opens |-> FALSE, bbox |-> <<Px(10), Px(10), Px(10), Px(10)>>, image_w |-> 22, image_h |-> 22],
     [opens |-> TRUE, bbox |-> <<Px(10), Px(10), Px(10), Px(10)>>, image_w |-> 22, image_h |-> 22],
     [opens |-> TRUE, bbox |-> <<Px(10), Px(10), Px(1), Px(1)>>, image_w |-> 5, image_h |-> 5]}

\* lines 1300-1338: what get_image_crop_and_class_id can raise on annotation a,
\* "" when it returns the crop.  Line 1307 opens the image file in text mode:
\* Python 2 reads its bytes all the same, under Python 3 either the read fails
\* to decode them (UnicodeDecodeError, a ValueError) or PIL cannot identify
\* the image (an IOError)
get_image_crop_and_class_id(a, box_scale_ratio, py) ==
    IF ~a.opens THEN {"IOError"}
    ELSE IF py = 3 THEN {"ValueError", "IOError"}
    ELSE LET b == crop_bounds(scale_box(a.bbox, box_scale_ratio), a.image_w, a.image_h, py)
             crop_width == b[3] - b[1]
             crop_height == b[4] - b[2]
         IN  IF crop_width <= 0 \/ crop_height <= 0 THEN {"ValueError"} ELSE {""}

\* a bug: only the images that cannot be opened are skipped
skipped_only_when_unopened(e) == e = "IOError"

\* lines 1353-1358: the two except clauses of the loop
skipped(e) == e \in {"IOError", "ValueError"}

\* lines 1350-1373: one annotation; an image that cannot be opened or cropped
\* is skipped; box_scale_ratio is the default of line 1219
CocoAnnotation ==
    /\ pc = "writing"
    /\ kind = "MSCOCO"
    /\ cur.stage = "annotations"
    /\ cur.taken < cur.todo
    /\ \E coco_class_id \in Range(splits.train \o splits.valid \o splits.test),
          a \in CocoSources, py \in Pythons :
       \E e \in get_image_crop_and_class_id(a, 12, py) :
           LET class_id == CocoIdToClassId(splits)[coco_class_id]
               n == GetInt(images_per_class, class_id)
           IN  /\ cur' = [cur EXCEPT !.taken = @ + 1, !.outcome = e]
               /\ IF e = ""
                  THEN /\ shards' = [shards EXCEPT
                                       ![class_id] = coco_append(@, n, CropBytes(cur.taken + 1),
                                                                 class_id)]
                       /\ images_per_class' = Put(images_per_class, class_id, n + 1)
                       /\ UNCHANGED <<pc, raised>>
                  ELSE IF skipped(e)
                  THEN UNCHANGED <<shards, images_per_class, pc, raised>>
                  ELSE /\ Fail(e)
                       /\ UNCHANGED <<shards, images_per_class>>
    /\ UNCHANGED <<gs, lp, wr, kind, seed, npRng, pyRng, splitFile, specFile, spec_writes,
                   classes_per_split, class_names, bilevel, splits, queue, lastCall, created,
                   class_split, num_src_classes>>

\* lines 1375-1376
CocoCloseWriters ==
    /\ pc = "writing"
    /\ kind = "MSCOCO"
    /\ cur.stage = "annotations"
    /\ cur.taken = cur.todo
    /\ shards' = [c \in DOMAIN shards |-> CloseShard(shards[c])]
    /\ cur' = [cur EXCEPT !.stage = "closed"]
    /\ pc' = "materialized"
    /\ UNCHANGED <<gs, lp, wr, kind, seed, npRng, pyRng, splitFile, specFile, spec_writes,
                   classes_per_split, class_names, images_per_class, bilevel, splits, queue,
                   lastCall, created, class_split, num_src_classes, raised>>

\* self.write_data_spec_pkl() as the last statement of
\* create_dataset_specification_and_records (lines 829, 896, 964, 1027, 1139,
\* 1199, 1378, 1587, 1663)
WriteSpecInCreate ==
    /\ pc = "materialized"
    /\ specFile' = <<SpecSnapshot>>
    /\ spec_writes' = spec_writes + 1
    /\ pc' = "create_returned"
    /\ UNCHANGED <<gs, lp, wr, kind, seed, npRng, pyRng, splitFile, shards, classes_per_split,
                   class_names, images_per_class, bilevel, splits, queue, cur, lastCall,
                   created, class_split, num_src_classes, raised>>

\* convert_dataset, line 531: self.write_data_spec_pkl()
WriteSpecInConvert ==
    /\ pc = "create_returned"
    /\ specFile' = <<SpecSnapshot>>
    /\ spec_writes' = spec_writes + 1
    /\ pc' = "persisted"
    /\ UNCHANGED <<gs, lp, wr, kind, seed, npRng, pyRng, splitFile, shards, classes_per_split,
                   class_names, images_per_class, bilevel, splits, queue, cur, lastCall,
                   created, class_split, num_src_classes, raised>>

Init == ConvertInit

Next ==
    \/ ListSourceClasses
    \/ ResolveSplits
    \/ WriteClass
    \/ OpenAlphabet
    \/ CloseAlphabet
    \/ CocoOpenWriters
    \/ CocoAnnotation
    \/ CocoCloseWriters
    \/ WriteSpecInCreate
    \/ WriteSpecInConvert

Spec == Init /\ [][Next]_vars

(***************************************************************************)
(* The properties.                                                         *)
(***************************************************************************)
SameSeedSameSplits ==
    \A i, j \in DOMAIN created :
        created[i].seed = created[j].seed => created[i].splits = created[j].splits

\* C1: for all counts (t, v, s) and every outcome of the two draws,
\* gen_rand_split_inds returns three pairwise disjoint lists of lengths t, v
\* and s whose union is the range [0, t+v+s).
C1_SplitPartition ==
    gs.pc = "returned" =>
        LET r == gs.ret
        IN  /\ Len(r.train) = gs.t
            /\ Len(r.valid) = gs.v
            /\ Len(r.test) = gs.s
            /\ Range(r.train) \cap Range(r.valid) = {}
            /\ Range(r.train) \cap Range(r.test) = {}
            /\ Range(r.valid) \cap Range(r.test) = {}
            /\ Range(r.train) \cup Range(r.valid) \cup Range(r.test)
                   = 0..(gs.t + gs.v + gs.s - 1)

C1_Witness ==
    /\ gs.pc = "returned"
    /\ gs.t = 2 /\ gs.v >= 1 /\ gs.s >= 1
    /\ gs.ret.train[1] > gs.ret.train[2]

\* C3: in every shard written by write_tfrecord_from_image_files, after each
\* append and at close, labels is as long as images and every label is the
\* class id the shard was opened for.
C3_LabelsAreClassId ==
    wr.pc \in {"open", "closed"} =>
        /\ Len(wr.w.shard.labels) = Len(wr.w.shard.images)
        /\ \A i \in DOMAIN wr.w.shard.labels : wr.w.shard.labels[i] = wr.class_label

\* C4: for the converters that draw their split with gen_rand_split_inds, any
\* two computations of the splits with the same seed give the same train,
\* valid and test lists, whatever was drawn from the generator before.
C4_RandSplitsReproducible == kind \in RandSplitKinds => SameSeedSameSplits

C4_Witness ==
    /\ kind \in RandSplitKinds
    /\ Len(created) >= 2
    /\ created[1].seed = created[2].seed
    /\ Len(created[2].splits.train) > 0
    /\ lastCall.called_create
    /\ lastCall.np_before # np_random_seed(seed)

\* C5: for every converter, MSCOCOConverter included, any two computations
\* of the splits with the same seed give the same lists.
C5_EverySplitReproducible == SameSeedSameSplits

\* C7: load_and_process_image returns the bytes of the file if and only if the
\* format is output_format, the mode is RGB, no box is given and invert_img is
\* false; otherwise it returns the transformed image encoded to output_format.
C7_RecodeSkip ==
    lp.pc = "returned" =>
        LET canonical ==
                /\ lp.file.format = lp.output_format
                /\ lp.file.mode = "RGB"
                /\ lp.bbox = <<>>
                /\ ~lp.invert_img
        IN  /\ (lp.bytes = FileBytes(lp.file)) <=> canonical
            /\ ~canonical =>
                   lp.bytes = [enc |-> "PIL", format |-> lp.output_format, mode |-> "RGB",
                               pix |-> IF lp.invert_img THEN 1 - lp.file.pix ELSE lp.file.pix,
                               region |-> lp.bbox]

C7_Witness ==
    /\ lp.pc = "returned"
    /\ lp.file.format = lp.output_format
    /\ lp.file.mode = "RGB"
    /\ lp.bbox = <<>>
    /\ lp.invert_img

CachedCall ==
    /\ lastCall.called
    /\ ~lastCall.force_create
    /\ lastCall.file_before # <<>>
    /\ pkl_load(lastCall.file_before).n_keys = 3

\* C8: when the split file holds a dictionary with the keys train, valid and
\* test and force_create is false, get_splits returns the content of the file,
\* does not re-seed the generator, does not call create_splits and leaves the
\* file as it was.
C8_CachedSplitsReturned ==
    CachedCall =>
        /\ lastCall.err = ""
        /\ lastCall.ret = pkl_load(lastCall.file_before)
        /\ ~lastCall.reseeded
        /\ lastCall.np_after = lastCall.np_before
        /\ ~lastCall.called_create
        /\ lastCall.file_after = lastCall.file_before

C8_Witness ==
    /\ CachedCall
    /\ kind \in RandSplitKinds
    /\ lastCall.np_before # np_random_seed(seed)
    /\ lastCall.ret # create_splits(kind, np_random_seed(seed), pyRng, num_src_classes).splits

\* the converters and sources on which create_splits itself raises
CreateSplitsRaises ==
    \/ kind \in {"Omniglot", "ImageNet"}
    \/ kind = "CUBirds" /\ num_src_classes # NUM_TOTAL_CLASSES(kind)

RECURSIVE SumOver(_, _)
SumOver(f, S) ==
    IF S = {} THEN 0
    ELSE LET x == CHOOSE y \in S : TRUE IN GetInt(f, x) + SumOver(f, S \ {x})

\* the class counts a persisted specification records for the three splits: a
\* flat one in classes_per_split, a bi-level one through the superclasses of
\* each split, the hierarchical one through the leaves of each split's subgraph
RecordedClassCounts(sp) ==
    CASE sp.has_superclasses ->
             LET sps == sp.bilevel.superclasses_per_split
                 cls == sp.bilevel.classes_per_superclass
             IN  [train |-> SumOver(cls, 0..(sps.train - 1)),
                  valid |-> SumOver(cls, sps.train..(sps.train + sps.valid - 1)),
                  test |-> SumOver(cls, (sps.train + sps.valid)
                                        ..(sps.train + sps.valid + sps.test - 1))]
      [] kind = "ImageNet" -> [train |-> NumTrain, valid |-> NumValid, test |-> NumTest]
      [] OTHER -> sp.classes_per_split

\* C2: after a successful conversion the class ids are split-ordered: with nT,
\* nV the recorded train and valid class counts, every class id below nT is a
\* class of the train split, every id from nT to nT+nV-1 one of the valid
\* split, and every other id one of the test split.
C2_SplitOrdered ==
    pc = "persisted" =>
        LET sp == specFile[1]
            n == RecordedClassCounts(sp)
        IN  \A c \in DOMAIN sp.class_names :
                class_split[c] = IF c < n.train THEN "train"
                                 ELSE IF c < n.train + n.valid THEN "valid" ELSE "test"

\* C6: after a successful conversion by a flat converter the persisted
\* specification has as many class names, and as many images_per_class
\* entries, as the sum of its classes_per_split.
C6_FlatSpecConsistent ==
    (pc = "persisted" /\ kind \in SelfWritingKinds) =>
        LET sp == specFile[1]
            total == sp.classes_per_split.train + sp.classes_per_split.valid
                     + sp.classes_per_split.test
        IN  /\ total = Cardinality(DOMAIN sp.class_names)
            /\ total = Cardinality(DOMAIN sp.images_per_class)

\* the position of the first file of class_files that cannot be loaded
FirstBad(class_files) ==
    CHOOSE i \in DOMAIN class_files :
        /\ ~Loads(class_files[i])
        /\ \A j \in 1..(i - 1) : Loads(class_files[j])

\* C10: with skip_on_error false, the first file of a class that cannot be read
\* or decoded makes write_tfrecord_from_image_files raise the IOError: the loop
\* has taken no later file, only the files before it are written, no count is
\* returned, the conversion has failed with that error and has written no
\* specification.
C10_FirstErrorAborts ==
    (/\ wr.pc # "none"
     /\ ~wr.skip_on_error
     /\ \E i \in DOMAIN wr.class_files : ~Loads(wr.class_files[i])) =>
        LET bad == FirstBad(wr.class_files)
        IN  /\ wr.pc = "raised"
            /\ wr.w.err = "IOError"
            /\ wr.w.i = bad
            /\ Len(wr.w.shard.images) = bad - 1
            /\ wr.w.shard.open
            /\ wr.ret = <<>>
            /\ pc = "failed"
            /\ raised = "IOError"
            /\ spec_writes = 0

\* a conversion that failed on the second file of a class, a later file left
\* untaken or not
C10_Witness ==
    /\ wr.pc = "raised"
    /\ ~wr.skip_on_error
    /\ Len(wr.class_files) = 2
    /\ Loads(wr.class_files[1])
    /\ ~Loads(wr.class_files[2])
    /\ wr.w.i = 2
    /\ pc = "failed"
    /\ raised = "IOError"
    /\ spec_writes = 0

\* the bytes load_and_process_image gives for the files of the call that load,
\* in the order of class_files
LoadedBytes ==
    LET kept == SelectSeq([i \in DOMAIN wr.class_files |-> [f |-> wr.class_files[i], i |-> i]],
                          LAMBDA x : Loads(x.f))
    IN  [j \in DOMAIN kept |->
            load_and_process_image(kept[j].f, BoxAt(wr.bboxes, kept[j].i), wr.invert_img,
                                   "JPEG").bytes]

\* C11: with skip_on_error true a write_tfrecord_from_image_files call over n
\* files of which k cannot be loaded never raises; once it has returned, it has
\* returned n-k and the closed shard holds exactly the n-k images that loaded,
\* in the order of class_files, with no slot left for a skipped file.
C11_SkipOnError ==
    (wr.pc # "none" /\ wr.skip_on_error) =>
        /\ wr.pc # "raised"
        /\ wr.w.err = ""
        /\ wr.pc = "closed" =>
               /\ wr.ret = <<Len(LoadedBytes)>>
               /\ wr.w.shard.images = LoadedBytes
               /\ Len(wr.w.shard.labels) = Len(LoadedBytes)
               /\ ~wr.w.shard.open

\* a call that has skipped its first file and written its second
C11_Witness ==
    /\ wr.pc = "closed"
    /\ wr.skip_on_error
    /\ Len(wr.class_files) = 2
    /\ ~Loads(wr.class_files[1])
    /\ Loads(wr.class_files[2])
    /\ wr.ret = <<1>>

\* C12: whenever the conversion has failed, there is no specification file at
\* dataset_spec_path, also when an earlier conversion into the same
\* records_path had succeeded.
C12_FailureLeavesNoSpec ==
    pc = "failed" => specFile = <<>>

\* C13: once convert_dataset has returned, the conversion has written the
\* specification file exactly once, whatever the converter.
C13_SpecWrittenOnce ==
    pc = "persisted" => spec_writes = 1

\* new is old, or old with one slot more that holds an image
SameOrOneMore(old, new) ==
    \/ new = old
    \/ /\ Len(new) = Len(old) + 1
       /\ SubSeq(new, 1, Len(old)) = old
       /\ new[Len(new)] # NoBytes

\* C14: every step of a conversion leaves the images of an open shard as they
\* are or appends exactly one slot holding the new image, the slots written
\* earlier unchanged, and closing changes no slot; a closed shard has no empty
\* slot, the shard of an MSCOCO class holds as many crops as were counted for
\* the class, in the order of their annotations, and the shard of a
\* write_tfrecord_from_image_files call that returned holds the images of the
\* files that loaded, in their order, as many as the count returned.
C14_AppendOnly ==
    /\ [][\A c \in (DOMAIN shards) \cap (DOMAIN shards') :
              shards[c].open =>
                  IF shards'[c].open THEN SameOrOneMore(shards[c].images, shards'[c].images)
                  ELSE shards'[c].images = shards[c].images]_vars
    /\ [](\A c \in DOMAIN shards :
              ~shards[c].open =>
                  /\ \A i \in DOMAIN shards[c].images : shards[c].images[i] # NoBytes
                  /\ kind = "MSCOCO" =>
                         /\ Len(shards[c].images) = GetInt(images_per_class, c)
                         /\ \A i, j \in DOMAIN shards[c].images :
                                i < j => shards[c].images[i].region[2]
                                             < shards[c].images[j].region[2])
    /\ [](wr.pc = "closed" =>
              /\ wr.w.shard.images = LoadedBytes
              /\ wr.ret = <<Len(wr.w.shard.images)>>)

\* a conversion has appended two crops to the shard of one MSCOCO class and
\* closed it
C14_Witness ==
    /\ kind = "MSCOCO"
    /\ \E c \in DOMAIN shards :
           /\ ~shards[c].open
           /\ Len(shards[c].images) = 2
           /\ shards[c].images[1] # shards[c].images[2]

\* C15: for CUBirds, VGGFlower, DTD, Aircraft and Fungi, when the source holds
\* another number of classes than NUM_TRAIN + NUM_VALID + NUM_TEST, the
\* conversion creates no shard file and does not get past its loop over the
\* classes, whether the split was computed or read from the split file.
C15_MismatchFailsBeforeShards ==
    (/\ kind \in {"CUBirds", "VGGFlower", "DTD", "Aircraft", "Fungi"}
     /\ num_src_classes # NUM_TOTAL_CLASSES(kind)) =>
        /\ shards = <<>>
        /\ pc \in {"uninitialized", "writing", "failed"}

\* C17: after a successful conversion of a dataset with N classes there is
\* exactly one shard file per class id in [0, N), each holding exactly
\* images_per_class[class_id] entries, and for the converters whose get_splits
\* returns lists of classes, classes_per_split equals the lengths of the train,
\* valid and test lists it returned.
C17_ShardPerClass ==
    pc = "persisted" =>
        LET sp == specFile[1]
            N == Cardinality(DOMAIN sp.class_names)
        IN  /\ DOMAIN shards = 0..(N - 1)
            /\ \A class_id \in DOMAIN shards :
                   /\ ~shards[class_id].open
                   /\ Len(shards[class_id].images) = GetInt(sp.images_per_class, class_id)
            /\ kind \in SelfWritingKinds =>
                   sp.classes_per_split = [train |-> Len(splits.train),
                                           valid |-> Len(splits.valid),
                                           test |-> Len(splits.test)]

\* C18: every write_tfrecord_from_npy_single_channel call on an array of n >= 0
\* rows completes without error, leaves a closed shard of exactly n entries,
\* entry i being the encoding of row i with the given class label, and returns
\* n (which Quickdraw records as the class's images_per_class).
C18_NpyWriterCompletes ==
    kind = "Quickdraw" =>
        /\ raised # "AttributeError"
        /\ \A class_label \in DOMAIN shards :
               LET sh == shards[class_label]
               IN  /\ ~sh.open
                   /\ class_label \in DOMAIN images_per_class
                   /\ images_per_class[class_label] = Len(sh.images)
                   /\ \A i \in 1..Len(sh.images) :
                          /\ sh.images[i] = ArrayImageBytes
                          /\ sh.labels[i] = class_label

\* C19: the steps of convert_dataset occur in the order splits resolved, classes
\* materialized, specification persisted: whenever the specification file is
\* written, the split has been resolved, no class is left to process, and every
\* class named so far has its shard, written and closed.
C19_SpecAfterShards ==
    [][(specFile' # specFile \/ spec_writes' # spec_writes) =>
           /\ pc \in {"materialized", "create_returned"}
           /\ kind \in SplitFileKinds => (lastCall # NoCall /\ splits # EmptyDict)
           /\ queue = <<>>
           /\ DOMAIN class_names \subseteq DOMAIN shards
           /\ \A class_id \in DOMAIN shards : ~shards[class_id].open]_vars

C19_Witness ==
    /\ pc = "persisted"
    /\ spec_writes >= 1
    /\ specFile # <<>>
    /\ Cardinality(DOMAIN shards) >= 2
    /\ \E class_id \in DOMAIN shards : Len(shards[class_id].images) >= 1

\* C20: during any conversion, by any converter, at most one class's shard is
\* open for writing at any moment.
C20_OneShardOpen ==
    Cardinality({class_id \in DOMAIN shards : shards[class_id].open}) <= 1

\* the position of a class of the loop in the concatenation train + valid + test
\* of the splits get_splits returned
PositionInSplits(item) ==
    LET list == IF item.split = "train" THEN splits.train
                ELSE IF item.split = "valid" THEN splits.valid ELSE splits.test
        offset == IF item.split = "train" THEN 0
                  ELSE IF item.split = "valid" THEN Len(splits.train)
                  ELSE Len(splits.train) + Len(splits.valid)
    IN  offset + Min({i \in DOMAIN list : list[i] = item.native}) - 1

\* C21: class ids are allocated by position, never from the values the split
\* lists hold: whenever a converter that takes its classes from get_splits has
\* written one class, the class's name, split and shard are recorded under the
\* position of the class in train + valid + test, an id not in use before.
C21_PositionalClassIds ==
    [][(/\ kind \in SplitFileKinds
        /\ pc = "writing"
        /\ queue # <<>>
        /\ queue' = Tail(queue)) =>
           LET c == PositionInSplits(Head(queue))
           IN  /\ c \notin DOMAIN class_names
               /\ c \in DOMAIN class_names'
               /\ c \in DOMAIN shards'
               /\ c \in DOMAIN class_split'
               /\ class_split'[c] = Head(queue).split]_vars

\* C22: after a successful conversion, for every class id c, images_per_class[c]
\* of the persisted specification equals the number of entries of shard c, also
\* when a class directory holds sub-directories or skipped files and when
\* images were skipped on read errors.
C22_CountsAreRealized ==
    pc = "persisted" =>
        \A c \in DOMAIN shards \cup DOMAIN specFile[1].images_per_class :
            /\ c \in DOMAIN shards
            /\ GetInt(specFile[1].images_per_class, c) = Len(shards[c].images)

\* C23: a consistency error is fatal: a conversion by Aircraft, DTD or Fungi
\* whose source holds another number of classes than the splits, or by
\* MiniImageNet whose cache files name fewer classes than the splits, writes no
\* specification; so whenever one of them has written its specification, the
\* source held as many classes as the splits and every class of the splits has
\* its name.
C23_ConsistencyErrorsFatal ==
    (kind \in {"Aircraft", "DTD", "Fungi", "MiniImageNet"} /\ spec_writes > 0) =>
        /\ kind # "MiniImageNet" => num_src_classes = NUM_TOTAL_CLASSES(kind)
        /\ Cardinality(DOMAIN class_names)
               = Len(splits.train) + Len(splits.valid) + Len(splits.test)

\* C24: get_splits(force_create=True) always re-seeds numpy's generator and
\* calls create_splits, also when a split file exists; and when create_splits
\* returns, get_splits returns the splits just created and the split file holds
\* them in place of its previous content.
C24_ForceCreateRecomputes ==
    (lastCall.called /\ lastCall.force_create) =>
        /\ lastCall.reseeded
        /\ lastCall.called_create
        /\ ~lastCall.hit
        /\ lastCall.err = "" =>
               /\ created # <<>>
               /\ created[Len(created)].splits = lastCall.ret
               /\ lastCall.file_after = pkl_dump(lastCall.ret)

C24_Witness ==
    /\ lastCall.called
    /\ lastCall.force_create
    /\ lastCall.err = ""
    /\ lastCall.file_before # <<>>
    /\ pkl_load(lastCall.file_before).n_keys = 3
    /\ lastCall.file_after # lastCall.file_before
    /\ splitFile = pkl_dump(lastCall.ret)

\* C25: a present split file is authoritative whatever it holds: when the split
\* file exists and force_create is false, get_splits returns the content of
\* the file without calling create_splits and without rewriting the file, also
\* when the content is an empty mapping.
C25_PresentFileAuthoritative ==
    (lastCall.called /\ ~lastCall.force_create /\ lastCall.file_before # <<>>) =>
        /\ lastCall.hit
        /\ lastCall.err = ""
        /\ lastCall.ret = pkl_load(lastCall.file_before)
        /\ ~lastCall.called_create
        /\ lastCall.file_after = lastCall.file_before

\* C26: once get_splits has created the splits and written the split file during
\* a conversion, no later step of the conversion changes the file, and when the
\* conversion has failed the file holds the splits the conversion worked with:
\* get_splits of a rerun, whatever the generators then hold, reads those splits
\* back without creating new ones and leaves the file as it is.
C26_SplitFileSurvivesFailure ==
    /\ [][pc # "uninitialized" => splitFile' = splitFile]_vars
    /\ []((pc = "failed" /\ lastCall.called_create /\ lastCall.err = "") =>
              /\ splitFile = pkl_dump(splits)
              /\ \A np \in RngStates, py \in RngStates :
                     LET o == get_splits(kind, seed, FALSE, splitFile, np, py, num_src_classes)
                     IN  /\ o.hit
                         /\ o.err = ""
                         /\ o.ret = splits
                         /\ o.file = splitFile)

C26_Witness ==
    /\ pc = "failed"
    /\ lastCall.called_create
    /\ lastCall.err = ""
    /\ lastCall.file_before = <<>>
    /\ splitFile # <<>>
    /\ shards # <<>>

\* C27: in the MSCOCO conversion an annotation whose image cannot be opened or
\* whose clamped crop has no width or no height fails only that example:
\* the step appends nothing to any shard, changes no images_per_class count and
\* leaves the conversion running, and a conversion that has begun to read its
\* annotations never fails.
C27_BadAnnotationSkipped ==
    /\ [][(/\ kind = "MSCOCO"
           /\ pc = "writing"
           /\ cur.stage = "annotations"
           /\ cur'.stage = "annotations"
           /\ cur'.taken = cur.taken + 1
           /\ cur'.outcome # "") =>
              /\ shards' = shards
              /\ images_per_class' = images_per_class
              /\ pc' = "writing"
              /\ raised' = ""]_vars
    /\ []((kind = "MSCOCO" /\ cur.stage \in {"annotations", "closed"}) =>
              pc \in {"writing", "materialized", "create_returned", "persisted"})

C27_Witness ==
    /\ kind = "MSCOCO"
    /\ pc = "persisted"
    /\ cur.stage = "closed"
    /\ cur.taken = 2
    /\ cur.outcome = "ValueError"
    /\ \E class_id \in DOMAIN shards : Len(shards[class_id].images) = 1

\* C28: OmniglotConverter parses any list of alphabets, also alphabets without
\* character folders, without raising on its superclass label, and once all
\* splits are parsed the superclass ids named are exactly 0, ..., n-1, n being
\* the sum of superclasses_per_split, and the sum of classes_per_superclass
\* over them equals len(class_names).
C28_SuperclassTables ==
    kind = "Omniglot" =>
        /\ raised # "UnboundLocalError"
        /\ pc \in {"create_returned", "persisted"} =>
               LET sps == bilevel.superclasses_per_split
                   n == sps.train + sps.valid + sps.test
               IN  /\ DOMAIN bilevel.superclass_names = 0..(n - 1)
                   /\ DOMAIN bilevel.classes_per_superclass \subseteq 0..(n - 1)
                   /\ SumOver(bilevel.classes_per_superclass, 0..(n - 1)) = len_class_names

\* C29: with well-formed source data and no I/O error every conversion ends with
\* its specification persisted: a conversion over a source with the expected
\* number of classes never ends in an error of the program itself (a name or
\* attribute that does not exist, a value of the wrong type, bytes read as
\* text), and an Aircraft conversion over such a source never fails.
C29_WellFormedNeverFails ==
    num_src_classes = NUM_TOTAL_CLASSES(kind) =>
        /\ raised \notin {"NameError", "AttributeError", "TypeError", "UnicodeDecodeError"}
        /\ kind = "Aircraft" => pc # "failed"

(***************************************************************************)
(* The construction of a converter (DatasetConverter.__init__, lines       *)
(* 394-445, and the constructors that call it).  Python values are strings *)
(* here: "None", "False", "True" or a path.                                *)
(***************************************************************************)
\* the truth value Python gives a value in an if statement
PyTruthy(v) == v \notin {"None", "False", ""}

\* DatasetConverter.__init__ (lines 394-445) with _init_specification (lines
\* 499-502): the fields of the new instance, the directories it has made, and
\* which of the two sets of tables it has initialised; the defaults are
\* os.path.join(FLAGS.records_root, name) and
\* os.path.join(FLAGS.splits_root, '{}_splits.pkl'.format(name))
DatasetConverter_init(has_superclasses, records_path, split_file, random_seed) ==
    LET rp == IF records_path = "None" THEN "records_root/name" ELSE records_path
    IN  [has_superclasses |-> has_superclasses,
         seed |-> random_seed,
         records_path |-> rp,
         dataset_spec_path |-> <<rp, "dataset_spec.pkl">>,
         split_file |-> IF split_file = "None" THEN "splits_root/name_splits.pkl" ELSE split_file,
         made_dirs |-> {rp} \cup (IF split_file = "None" THEN {"splits_root"} ELSE {}),
         has_classes_per_split |-> ~PyTruthy(has_superclasses),
         has_superclasses_per_split |-> PyTruthy(has_superclasses)]

\* MSCOCOConverter.__init__, lines 1248-1249: the call
\* super().__init__(name, data_root, records_path, split_file) passes four
\* positional arguments; the third parameter of DatasetConverter.__init__ is
\* has_superclasses and the fourth records_path
MSCOCOConverter_init(records_path, split_file) ==
    DatasetConverter_init(records_path, split_file, "None", DefaultSeed)

\* Converter(name, data_root, records_path=..., split_file=...) for converter k
Converter_init(k, records_path, split_file) ==
    CASE k = "MSCOCO" -> MSCOCOConverter_init(records_path, split_file)
      [] k = "Omniglot" ->
             \* lines 664-669
             DatasetConverter_init("True", records_path, split_file, DefaultSeed)
      [] OTHER -> DatasetConverter_init("False", records_path, split_file, DefaultSeed)

ConstructInit ==
    /\ GsIdle /\ LpIdle /\ WrIdle
    /\ kind \in Kinds
    /\ seed = DefaultSeed
    /\ npRng = 0
    /\ pyRng = 0
    /\ splitFile = <<>>
    /\ specFile = <<>>
    /\ shards = <<>>
    /\ lastCall = NoCall
    /\ created = <<>>
    /\ num_src_classes = NUM_TOTAL_CLASSES(kind)
    /\ pc = "uninitialized"
    /\ classes_per_split = ZeroPerSplit
    /\ class_names = <<>>
    /\ images_per_class = <<>>
    /\ bilevel = [superclasses_per_split |-> ZeroPerSplit,
                  classes_per_superclass |-> <<>>, superclass_names |-> <<>>]
    /\ splits = EmptyDict
    /\ queue = <<>>
    /\ class_split = <<>>
    /\ spec_writes = 0
    /\ raised = ""
    /\ \E rp \in {"None", "P", "Q"}, sf \in {"None", "S", "T"} :
           cur = [stage |-> "init_called", records_path |-> rp, split_file |-> sf,
                  self |-> <<>>, err |-> ""]

\* the constructor call returns the instance
ConstructConverter ==
    /\ cur.stage = "init_called"
    /\ cur' = [cur EXCEPT !.stage = "constructed",
                          !.self = <<Converter_init(kind, cur.records_path, cur.split_file)>>]
    /\ UNCHANGED cropOther

\* convert_dataset up to the first use of the tables of the specification:
\* self.classes_per_split (lines 790, 880, ..., 1285, ..., 1630), for Omniglot
\* self.superclasses_per_split (line 707), none for ImageNet; an attribute
\* _init_specification has not set raises AttributeError
UseSpecTables ==
    /\ cur.stage = "constructed"
    /\ LET self == cur.self[1]
           missing == CASE kind = "Omniglot" -> ~self.has_superclasses_per_split
                        [] kind = "ImageNet" -> FALSE
                        [] OTHER -> ~self.has_classes_per_split
       IN  cur' = [cur EXCEPT !.stage = IF missing THEN "raised" ELSE "tables_in_use",
                              !.err = IF missing THEN "AttributeError" ELSE ""]
    /\ UNCHANGED cropOther

ConstructNext ==
    \/ ConstructConverter
    \/ UseSpecTables

SpecConstruct == ConstructInit /\ [][ConstructNext]_vars

\* C30: an MSCOCOConverter constructed with an explicit records_path P and an
\* explicit split_file S is a flat converter with classes_per_split
\* initialised, whose records_path is P, whose specification is written under
\* P and whose split file is S, and whose conversion can use classes_per_split.
C30_MSCOCOArgumentsBound ==
    (/\ kind = "MSCOCO"
     /\ cur.stage \in {"constructed", "tables_in_use", "raised"}
     /\ cur.records_path # "None"
     /\ cur.split_file # "None") =>
        LET self == cur.self[1]
        IN  /\ ~PyTruthy(self.has_superclasses)
            /\ self.has_classes_per_split
            /\ self.records_path = cur.records_path
            /\ self.dataset_spec_path = <<cur.records_path, "dataset_spec.pkl">>
            /\ self.split_file = cur.split_file
            /\ cur.stage # "raised"

====
